---- MODULE Spec2Model ----
(***************************************************************************)
(* A model of the data grid of src/components/common/DynamicTable.tsx:     *)
(* the query pipeline (search, filter, sort), the pagination slice, the    *)
(* selection handlers and the edit / delete handlers with their            *)
(* confirmation dialog.                                                    *)
(*                                                                         *)
(* JavaScript values are tagged records (Null, Num, Str, Bool, Arr) and    *)
(* JavaScript strings are sequences of one-character strings, so that      *)
(* toLowerCase, includes, String() and localeCompare are computed, not     *)
(* assumed.  Row ids are kept as atomic strings: the code only compares    *)
(* them with === and includes().                                           *)
(***************************************************************************)
EXTENDS Integers, Sequences, FiniteSets, TLC

(* ------------------------------ bounds -------------------------------- *)

\* itemsPerPage ranges over 1..MaxPerPage.
MaxPerPage == 2

\* The browser hands out at most MaxUrls object URLs.
MaxUrls == 7

\* The rows of the long data array.
MaxLongRows == 7

(* --------------------------- JavaScript values ------------------------ *)

Null == [t |-> "null"]
Undefined == [t |-> "undefined"]
Num(n) == [t |-> "num", n |-> n]
Str(s) == [t |-> "str", s |-> s]
Bool(b) == [t |-> "bool", b |-> b]
Arr(a) == [t |-> "arr", a |-> a]

\* value === null || value === undefined
IsNullish(v) == v.t \in {"null", "undefined"}

\* JavaScript truthiness: !value is ~Truthy(value).
Truthy(v) ==
  CASE IsNullish(v) -> FALSE
    [] v.t = "num" -> v.n # 0
    [] v.t = "str" -> v.s # <<>>
    [] v.t = "bool" -> v.b
    [] OTHER -> TRUE

\* item[key]: a key the row does not have reads undefined.
Field(item, key) == IF key \in DOMAIN item THEN item[key] ELSE Undefined

(* ------------------------------ strings ------------------------------- *)

UpperChars ==
  <<"A", "B", "C", "D", "E", "F", "G", "H", "I", "J", "K", "L", "M",
    "N", "O", "P", "Q", "R", "S", "T", "U", "V", "W", "X", "Y", "Z">>

LowerChars ==
  <<"a", "b", "c", "d", "e", "f", "g", "h", "i", "j", "k", "l", "m",
    "n", "o", "p", "q", "r", "s", "t", "u", "v", "w", "x", "y", "z">>

Digits == <<"0", "1", "2", "3", "4", "5", "6", "7", "8", "9">>

IndexOf(seq, c) ==
  IF \E i \in 1..Len(seq) : seq[i] = c
    THEN CHOOSE i \in 1..Len(seq) : seq[i] = c
    ELSE 0

\* The lower-case letter of each capital.
LowerTable ==
  [c \in {UpperChars[i] : i \in 1..Len(UpperChars)} |->
     LowerChars[IndexOf(UpperChars, c)]]

LowerChar(c) == IF c \in DOMAIN LowerTable THEN LowerTable[c] ELSE c

\* String.prototype.toLowerCase
ToLowerCase(s) == [i \in 1..Len(s) |-> LowerChar(s[i])]

\* String.prototype.includes: the empty string is included in every string.
Includes(s, sub) ==
  \E i \in 0..(Len(s) - Len(sub)) : SubSeq(s, i + 1, i + Len(sub)) = sub

RECURSIVE NumToString(_)
\* String(n) for a natural number n.
NumToString(n) ==
  IF n < 10 THEN <<Digits[n + 1]>>
  ELSE NumToString(n \div 10) \o <<Digits[(n % 10) + 1]>>

RECURSIVE JoinStrings(_, _)
\* Array.prototype.join over already converted elements.
JoinStrings(parts, sep) ==
  IF parts = <<>> THEN <<>>
  ELSE IF Len(parts) = 1 THEN parts[1]
  ELSE parts[1] \o sep \o JoinStrings(Tail(parts), sep)

RECURSIVE ToStringV(_)
\* String(value) / value.toString()
ToStringV(v) ==
  CASE v.t = "null" -> <<"n", "u", "l", "l">>
    [] v.t = "undefined" -> <<"u", "n", "d", "e", "f", "i", "n", "e", "d">>
    [] v.t = "num" -> NumToString(v.n)
    [] v.t = "str" -> v.s
    [] v.t = "bool" ->
         IF v.b THEN <<"t", "r", "u", "e">> ELSE <<"f", "a", "l", "s", "e">>
    [] OTHER ->
         JoinStrings([i \in 1..Len(v.a) |->
                        IF IsNullish(v.a[i]) THEN <<>> ELSE ToStringV(v.a[i])],
                     <<",">>)

\* Collation rank of a character: punctuation, then digits, then letters;
\* case is ignored at this level.
CollationOrder == <<"-", ",", " ", "$", "%">> \o Digits \o LowerChars

RankTable ==
  [c \in {CollationOrder[i] : i \in 1..Len(CollationOrder)} |->
     IndexOf(CollationOrder, c)]

CharRank(c) ==
  IF LowerChar(c) \in DOMAIN RankTable THEN RankTable[LowerChar(c)] ELSE 0

\* Case level of the collation: a lower-case letter sorts before its capital.
CaseRank(c) == IF c \in DOMAIN LowerTable THEN 1 ELSE 0

RECURSIVE LexCompare(_, _)
\* Lexicographic comparison of two sequences of numbers: -1, 0 or 1.
LexCompare(a, b) ==
  IF a = <<>> /\ b = <<>> THEN 0
  ELSE IF a = <<>> THEN -1
  ELSE IF b = <<>> THEN 1
  ELSE IF Head(a) < Head(b) THEN -1
  ELSE IF Head(a) > Head(b) THEN 1
  ELSE LexCompare(Tail(a), Tail(b))

\* String.prototype.localeCompare: letters first, case only to break a tie.
LocaleCompare(a, b) ==
  LET primary == LexCompare([i \in 1..Len(a) |-> CharRank(a[i])],
                            [i \in 1..Len(b) |-> CharRank(b[i])])
  IN IF primary # 0 THEN primary
     ELSE LexCompare([i \in 1..Len(a) |-> CaseRank(a[i])],
                     [i \in 1..Len(b) |-> CaseRank(b[i])])

(* ------------------------------ numbers ------------------------------- *)

NaN == [t |-> "nan"]

DigitSet == {Digits[i] : i \in 1..Len(Digits)}

IsDigit(c) == c \in DigitSet

RECURSIVE DigitsValue(_)
\* The number a non-empty string of digits denotes.
DigitsValue(s) ==
  IF Len(s) = 1 THEN IndexOf(Digits, s[1]) - 1
  ELSE 10 * DigitsValue(SubSeq(s, 1, Len(s) - 1)) + IndexOf(Digits, s[Len(s)]) - 1

\* Number(value), for the naturals and digit strings of the model: Num(n)
\* or NaN.
ToNumber(v) ==
  LET ofString(s) ==
        IF s = <<>> THEN Num(0)
        ELSE IF \A i \in 1..Len(s) : IsDigit(s[i]) THEN Num(DigitsValue(s))
        ELSE NaN
  IN CASE v.t = "num" -> v
       [] v.t = "null" -> Num(0)
       [] v.t = "undefined" -> NaN
       [] v.t = "bool" -> IF v.b THEN Num(1) ELSE Num(0)
       [] v.t = "str" -> ofString(v.s)
       [] OTHER -> ofString(ToStringV(v))

\* Number.parseFloat(s): the value of the longest prefix of digits, NaN
\* when there is none.
ParseFloat(s) ==
  LET n == IF \E i \in 1..Len(s) : ~IsDigit(s[i])
             THEN (CHOOSE i \in 1..Len(s) :
                     ~IsDigit(s[i]) /\ \A j \in 1..(i - 1) : IsDigit(s[j])) - 1
             ELSE Len(s)
  IN IF n = 0 THEN NaN ELSE Num(DigitsValue(SubSeq(s, 1, n)))

RECURSIVE GroupThousands(_)
\* Number.prototype.toLocaleString (en-US) of a natural number given as
\* its digits: a comma before every group of three.
GroupThousands(d) ==
  IF Len(d) <= 3 THEN d
  ELSE GroupThousands(SubSeq(d, 1, Len(d) - 3))
         \o <<",">> \o SubSeq(d, Len(d) - 2, Len(d))

(* --------------------------- configuration ---------------------------- *)

\* The defaults of DynamicTable's config object.
ConfigDefaults ==
  [ title |-> "Data Table",
    description |-> "",
    searchPlaceholder |-> "Search...",
    itemsPerPage |-> 10,
    enableSearch |-> TRUE,
    enableFilters |-> TRUE,
    enablePagination |-> TRUE,
    enableSelection |-> FALSE,
    enableSorting |-> TRUE,
    stickyHeader |-> FALSE,
    striped |-> TRUE,
    bordered |-> FALSE,
    compact |-> FALSE,
    className |-> "",
    emptyMessage |-> "No data found",
    loadingMessage |-> "Loading..." ]

\* The spread written the other way round, { ...tableConfig, ...defaults }.
DefaultsWin(tc) ==
  [k \in DOMAIN ConfigDefaults |-> ConfigDefaults[k]]

\* { ...defaults, ...tableConfig }
MergeConfig(tc) ==
  [k \in DOMAIN ConfigDefaults |->
     IF k \in DOMAIN tc THEN tc[k] ELSE ConfigDefaults[k]]

\* Three columns props: a text column and a number column, neither, the
\* second or both sortable.
PlainColumns ==
  << [key |-> "name", type |-> "text"],
     [key |-> "score", type |-> "number"] >>

SortableColumns ==
  << [key |-> "name", type |-> "text"],
     [key |-> "score", type |-> "number", sortable |-> TRUE] >>

AllSortableColumns ==
  << [key |-> "name", type |-> "text", sortable |-> TRUE],
     [key |-> "score", type |-> "number", sortable |-> TRUE] >>

\* A filters prop: a select filter on the name, a number filter on the
\* score.
NameScoreFilters ==
  << [key |-> "name", type |-> "select"],
     [key |-> "score", type |-> "number"] >>

\* An actions prop with one custom action; its onClick is the parent's.
ArchiveAction == << [key |-> "archive"] >>

\* A formFields prop: the form edits the name and the id.
NameIdFields ==
  << [key |-> "name", label |-> <<"N", "a", "m", "e">>, type |-> "text"],
     [key |-> "id", label |-> <<"I", "d">>, type |-> "text"] >>

\* A formFields prop with rules: a required name, a score with a range,
\* and a required note shown only while the record has a score.
ValidatedFields ==
  << [key |-> "name", label |-> <<"N", "a", "m", "e">>, type |-> "text",
      required |-> TRUE],
     [key |-> "score", label |-> <<"S", "c", "o", "r", "e">>,
      type |-> "number", validation |-> [min |-> 6, max |-> 9]],
     [key |-> "note", label |-> <<"N", "o", "t", "e">>, type |-> "text",
      required |-> TRUE, showWhen |-> "hasScore"] >>

\* A formFields prop with a file upload.
UploadFields ==
  << [key |-> "photo", label |-> <<"P", "h", "o", "t", "o">>,
      type |-> "file"] >>

\* col.searchable !== false
Searchable(col) == ~("searchable" \in DOMAIN col /\ col.searchable = FALSE)

\* column?.sortable
Sortable(col) == "sortable" \in DOMAIN col /\ col.sortable = TRUE

(* ----------------------------- formatValue ---------------------------- *)

\* formatValue(value, column).  Date columns are outside the value domain
\* of this model (no row holds a date).
formatValue(value, column) ==
  IF IsNullish(value) THEN <<"-">>
  ELSE CASE column.type = "currency" ->
              LET numValue == IF value.t = "str"
                                THEN ParseFloat(SelectSeq(value.s,
                                       LAMBDA c : c \notin {"$", ","}))
                                ELSE IF value.t = "num" THEN value
                                ELSE Num(0)
              IN IF numValue = NaN THEN <<"$", "0">>
                 ELSE <<"$">> \o GroupThousands(NumToString(numValue.n))
         [] column.type = "percentage" ->
              LET n == ToNumber(value)
              IN (IF n = NaN THEN <<"0">> ELSE NumToString(n.n)) \o <<"%">>
         [] column.type = "checkbox" ->
              IF Truthy(value) THEN <<"Y", "e", "s">> ELSE <<"N", "o">>
         [] OTHER ->
              IF value.t = "arr"
                THEN JoinStrings([i \in 1..Len(value.a) |->
                                    IF Truthy(value.a[i])
                                      THEN ToStringV(value.a[i]) ELSE <<>>],
                                 <<",", " ">>)
                ELSE IF Truthy(value) THEN ToStringV(value) ELSE <<>>

(* --------------------------- query pipeline --------------------------- *)

\* A faulty search predicate that wants the whole formatted value to be the
\* term.
SearchEquals(item, term, cols) ==
  \E i \in 1..Len(cols) :
    /\ Searchable(cols[i])
    /\ ~IsNullish(Field(item, cols[i].key))
    /\ ToLowerCase(formatValue(Field(item, cols[i].key), cols[i]))
         = ToLowerCase(term)

\* The search stage's predicate on one row (lines 202-213).
SearchMatches(item, term, cols) ==
  \E i \in 1..Len(cols) :
    /\ Searchable(cols[i])
    /\ ~IsNullish(Field(item, cols[i].key))
    /\ Includes(ToLowerCase(formatValue(Field(item, cols[i].key), cols[i])),
                ToLowerCase(term))

\* "Apply search": skipped when search is disabled or the term is empty.
ApplySearch(rows, term, cols, cfg) ==
  IF cfg.enableSearch /\ term # <<>>
    THEN SelectSeq(rows, LAMBDA item : SearchMatches(item, term, cols))
    ELSE rows

\* a === b on the model's values; two arrays are never the same object.
StrictEq(a, b) == a.t # "arr" /\ a = b

\* Array.prototype.includes on an array value.
ArrIncludes(arr, v) == \E i \in 1..Len(arr.a) : StrictEq(arr.a[i], v)

\* filters.find((f) => f.key === filterKey): its index, 0 when absent.
FindFilter(flts, filterKey) ==
  IF \E i \in 1..Len(flts) : flts[i].key = filterKey
    THEN CHOOSE i \in 1..Len(flts) :
           /\ flts[i].key = filterKey
           /\ \A j \in 1..(i - 1) : flts[j].key # filterKey
    ELSE 0

\* The predicate of one active filter on one row (the switch on
\* filter.type).  Date and date-range filters are outside the value domain
\* of this model.
FilterPasses(filter, filterValue, item) ==
  LET itemValue == Field(item, filter.key)
      one(val) == IF itemValue.t = "arr" THEN ArrIncludes(itemValue, val)
                  ELSE StrictEq(itemValue, val)
  IN CASE filter.type = "select" ->
            IF "multiple" \in DOMAIN filter /\ filter.multiple
               /\ filterValue.t = "arr"
              THEN \E i \in 1..Len(filterValue.a) : one(filterValue.a[i])
              ELSE one(filterValue)
       [] filter.type = "number" ->
            /\ ToNumber(itemValue) # NaN
            /\ ToNumber(itemValue) = ToNumber(filterValue)
       [] filter.type = "text" ->
            /\ ~IsNullish(itemValue)
            /\ Includes(ToLowerCase(ToStringV(itemValue)),
                        ToLowerCase(filterValue.s))
       [] OTHER -> TRUE

\* Whether a row survives every entry of activeFilters.
PassesFilters(item, af, flts) ==
  \A filterKey \in DOMAIN af :
    \/ ~Truthy(af[filterKey])
    \/ af[filterKey] = Str(<<"a", "l", "l">>)
    \/ FindFilter(flts, filterKey) = 0
    \/ FilterPasses(flts[FindFilter(flts, filterKey)], af[filterKey], item)

\* "Apply filters"
ApplyFilters(rows, af, flts, cfg) ==
  IF cfg.enableFilters
    THEN SelectSeq(rows, LAMBDA item : PassesFilters(item, af, flts))
    ELSE rows

\* A faulty comparator that negates the null verdicts too when descending.
SortCompareNegatingNulls(a, b, sc) ==
  LET aValue == Field(a, sc.key)
      bValue == Field(b, sc.key)
      comparison == IF IsNullish(aValue) THEN 1
                    ELSE IF IsNullish(bValue) THEN -1
                    ELSE IF aValue.t = "num" /\ bValue.t = "num"
                      THEN aValue.n - bValue.n
                      ELSE LocaleCompare(ToStringV(aValue), ToStringV(bValue))
  IN IF sc.direction = "desc" THEN -comparison ELSE comparison

\* The comparator handed to Array.prototype.sort (lines 281-296).
SortCompare(a, b, sc) ==
  LET aValue == Field(a, sc.key)
      bValue == Field(b, sc.key)
      comparison == IF aValue.t = "num" /\ bValue.t = "num"
                      THEN aValue.n - bValue.n
                      ELSE LocaleCompare(ToStringV(aValue), ToStringV(bValue))
  IN IF IsNullish(aValue) THEN 1
     ELSE IF IsNullish(bValue) THEN -1
     ELSE IF sc.direction = "desc" THEN -comparison ELSE comparison

RECURSIVE InsertionPoint(_, _, _, _, _)
\* The binary search of the engine's insertion sort: where pivot goes in
\* the sorted prefix, searching positions left..right (0-based).
InsertionPoint(sorted, pivot, left, right, sc) ==
  IF left >= right THEN left
  ELSE LET mid == left + ((right - left) \div 2)
       IN IF SortCompare(pivot, sorted[mid + 1], sc) < 0
            THEN InsertionPoint(sorted, pivot, left, mid, sc)
            ELSE InsertionPoint(sorted, pivot, mid + 1, right, sc)

RECURSIVE SortFrom(_, _, _, _)
\* Array.prototype.sort(comparator) as the engine runs it on a short
\* array: a stable binary insertion sort.
SortFrom(sorted, rest, k, sc) ==
  IF k > Len(rest) THEN sorted
  ELSE LET at == InsertionPoint(sorted, rest[k], 0, Len(sorted), sc)
       IN SortFrom(SubSeq(sorted, 1, at) \o <<rest[k]>>
                     \o SubSeq(sorted, at + 1, Len(sorted)),
                   rest, k + 1, sc)

\* "Apply sorting": sc is Null or [key, direction].
ApplySort(rows, sc, cfg) ==
  IF cfg.enableSorting /\ sc # Null THEN SortFrom(<<>>, rows, 1, sc) ELSE rows

\* filteredData as a function of its dependencies.
FilteredDataOf(rows, term, af, sc, cols, flts, cfg) ==
  ApplySort(ApplyFilters(ApplySearch(rows, term, cols, cfg), af, flts, cfg),
            sc, cfg)

(* ----------------------------- pagination ----------------------------- *)

\* Math.ceil(n / d) for n >= 0, d >= 1.
CeilDiv(n, d) == (n + d - 1) \div d

\* totalPages
TotalPagesOf(filtered, cfg) == CeilDiv(Len(filtered), cfg.itemsPerPage)

\* A faulty slice that takes the element at index end as well.
SliceThroughEnd(seq, start, end) ==
  IF start >= Len(seq) THEN <<>>
  ELSE SubSeq(seq, start + 1, IF end + 1 > Len(seq) THEN Len(seq) ELSE end + 1)

\* Array.prototype.slice(start, end) with 0 <= start.
Slice(seq, start, end) ==
  IF start >= Len(seq) THEN <<>>
  ELSE SubSeq(seq, start + 1, IF end > Len(seq) THEN Len(seq) ELSE end)

\* currentData for a given page.
PageOf(filtered, page, cfg) ==
  LET startIndex == (page - 1) * cfg.itemsPerPage
  IN IF cfg.enablePagination
       THEN Slice(filtered, startIndex, startIndex + cfg.itemsPerPage)
       ELSE filtered

(* ----------------------------- edit form ----------------------------- *)

\* handleFileUpload keeps five files and five previews per field.
MaxFilesPerField == 5

\* Array.prototype.slice(0, n)
Take(seq, n) == SubSeq(seq, 1, IF Len(seq) < n THEN Len(seq) ELSE n)

\* A faulty trim that removes nothing.
NoTrim(s) == s

RECURSIVE Trim(_)
\* String.prototype.trim(), the blank being the only white space here.
Trim(s) ==
  IF s = <<>> THEN s
  ELSE IF s[1] = " " THEN Trim(SubSeq(s, 2, Len(s)))
  ELSE IF s[Len(s)] = " " THEN Trim(SubSeq(s, 1, Len(s) - 1))
  ELSE s

\* formData[config.key]; the id of a record is a non-empty string.
FormValue(data, key) ==
  IF key = "id" THEN [t |-> "id", id |-> data.id] ELSE Field(data, key)

\* config.showWhen(formData), for the predicates of the forms above.
ShowWhen(config, data) ==
  CASE config.showWhen = "hasScore" -> Truthy(Field(data, "score"))
    [] OTHER -> TRUE

\* renderFormField draws the field: it has no showWhen or showWhen holds.
FieldShown(config, data) ==
  ~("showWhen" \in DOMAIN config /\ ~ShowWhen(config, data))

IsRequired(config) == "required" \in DOMAIN config /\ config.required

\* No entry in newErrors.
NoError == <<>>

RequiredMessage(config) ==
  config.label \o <<" ", "i", "s", " ", "r", "e", "q", "u", "i", "r", "e", "d">>

AtLeastMessage(config, n) ==
  config.label
    \o <<" ", "m", "u", "s", "t", " ", "b", "e", " ", "a", "t", " ",
         "l", "e", "a", "s", "t", " ">>
    \o NumToString(n)

NoMoreMessage(config, n) ==
  config.label
    \o <<" ", "m", "u", "s", "t", " ", "b", "e", " ", "n", "o", " ",
         "m", "o", "r", "e", " ", "t", "h", "a", "n", " ">>
    \o NumToString(n)

Characters == <<" ", "c", "h", "a", "r", "a", "c", "t", "e", "r", "s">>

\* What one pass of validateForm's forEach leaves in newErrors[config.key]
\* for a value; pattern and custom rules are not among the forms above.
FieldError(config, value) ==
  IF IsRequired(config)
       /\ (~Truthy(value) \/ (value.t = "str" /\ Trim(value.s) = <<>>))
    THEN RequiredMessage(config)
  ELSE IF ~Truthy(value) THEN NoError
  ELSE IF "validation" \notin DOMAIN config THEN NoError
  ELSE
    LET rules == config.validation
        Has(rule) == rule \in DOMAIN rules
        afterMinLength ==
          IF value.t = "str" /\ Has("minLength") /\ rules.minLength # 0
               /\ Len(value.s) < rules.minLength
            THEN AtLeastMessage(config, rules.minLength) \o Characters
            ELSE NoError
        afterMaxLength ==
          IF value.t = "str" /\ Has("maxLength") /\ rules.maxLength # 0
               /\ Len(value.s) > rules.maxLength
            THEN NoMoreMessage(config, rules.maxLength) \o Characters
            ELSE afterMinLength
        afterMin ==
          IF value.t = "num" /\ Has("min") /\ value.n < rules.min
            THEN AtLeastMessage(config, rules.min)
            ELSE afterMaxLength
        afterMax ==
          IF value.t = "num" /\ Has("max") /\ value.n > rules.max
            THEN NoMoreMessage(config, rules.max)
            ELSE afterMin
    IN afterMax

\* validateForm(): the newErrors mapping for a record.
ValidationErrors(data, fieldConfigs) ==
  LET ErrorAt(i) ==
        FieldError(fieldConfigs[i], FormValue(data, fieldConfigs[i].key))
      failing == {i \in 1..Len(fieldConfigs) : ErrorAt(i) # NoError}
      LastFor(k) ==
        CHOOSE i \in failing :
          /\ fieldConfigs[i].key = k
          /\ \A j \in failing : fieldConfigs[j].key = k => j <= i
  IN [k \in {fieldConfigs[i].key : i \in failing} |-> ErrorAt(LastFor(k))]

\* finalData: the record with every non-empty upload list written in.
FinalData(data, files) ==
  LET uploaded == {k \in DOMAIN files : Len(files[k]) > 0}
  IN [k \in DOMAIN data \cup uploaded |->
        IF k \in uploaded THEN Arr(files[k]) ELSE data[k]]

\* The default input's onChange value: a number field parses what is typed.
InputValue(config, text) ==
  IF config.type = "number"
    THEN LET parsed == ParseFloat(text)
         IN IF parsed = NaN \/ parsed.n = 0 THEN Num(0) ELSE parsed
    ELSE Str(text)

\* { ...prev, [key]: value }
WithKey(map, key, value) ==
  [k \in DOMAIN map \cup {key} |-> IF k = key THEN value ELSE map[k]]

\* prev[key] || []
ListAt(map, key) == IF key \in DOMAIN map THEN map[key] ELSE <<>>

\* The elements of a sequence except the one at a 0-based index.
WithoutIndex(seq, index) ==
  IF index >= Len(seq) THEN seq
  ELSE SubSeq(seq, 1, index) \o SubSeq(seq, index + 2, Len(seq))

(* ------------------------------- inputs ------------------------------- *)

\* The rows the parent can pass; a row is a mapping with a unique id.
RowPool ==
  << [id |-> "bulk", name |-> Str(<<"C", "a", "l">>), score |-> Null],
     [id |-> "1", name |-> Str(<<"A", "l">>), score |-> Num(10)],
     [id |-> "2", name |-> Str(<<"B", "o">>), score |-> Num(5)] >>

RECURSIVE PickRows(_, _)
\* The rows of RowPool at the positions in S, in pool order, from k on.
PickRows(S, k) ==
  IF k > Len(RowPool) THEN <<>>
  ELSE (IF k \in S THEN <<RowPool[k]>> ELSE <<>>) \o PickRows(S, k + 1)

\* The data arrays the parent passes: pairwise distinct ids.
DataSets == {PickRows(S, 1) : S \in SUBSET (1..Len(RowPool))}

\* The props of the model, each with a small page size: the default
\* configuration (search, filters and sorting, no selection) with a custom
\* row action; the same with selection enabled; and the edit form, without
\* search.
PropsChoices ==
  { [ tableConfig |-> [itemsPerPage |-> n],
      columns |-> SortableColumns, filters |-> NameScoreFilters,
      formFields |-> <<>>, actions |-> ArchiveAction ]
      : n \in 1..MaxPerPage }
  \cup
  { [ tableConfig |-> [itemsPerPage |-> n, enableSelection |-> TRUE],
      columns |-> SortableColumns, filters |-> NameScoreFilters,
      formFields |-> <<>>, actions |-> ArchiveAction ]
      : n \in 1..MaxPerPage }
  \cup
  { [ tableConfig |-> [itemsPerPage |-> n, enableSearch |-> FALSE],
      columns |-> PlainColumns, filters |-> <<>>,
      formFields |-> NameIdFields, actions |-> <<>> ]
      : n \in 1..MaxPerPage }

\* The ids of the rows of a long data array.
LongIds == <<"3", "4", "5", "6", "7", "8", "9", "10", "11">>

\* A data array long enough for the page links to be abridged.
LongData ==
  [i \in 1..MaxLongRows |->
     [id |-> LongIds[i], name |-> Str(<<"R", "o", "w">>), score |-> Num(i)]]

\* The props over the long data array: one row a page, paging and the row
\* Delete button only.
LongProps ==
  { [ tableConfig |-> [itemsPerPage |-> 1, enableSearch |-> FALSE],
      columns |-> PlainColumns, filters |-> <<>>,
      formFields |-> <<>>, actions |-> ArchiveAction ] }

\* What the user types into the search box.
SearchTerms == {<<>>, <<"a">>}

\* The options of the select filter on the name.
SelectOptions == {Str(<<"A", "l">>)}

\* What the user types into a field of the edit form.
FieldInputs(key) ==
  CASE key = "name" -> {Str(<<"B", "o">>)}
    [] key = "id" -> {"1", "2"}
    [] OTHER -> {}

(* ------------------------------- state -------------------------------- *)

VARIABLES
  props,           \* the props the grid is mounted with
  localData,       \* useState(data)
  searchTerm,      \* useState("")
  activeFilters,   \* useState({}): filter key -> value
  sortConfig,      \* useState(null): Null or [key, direction]
  currentPage,     \* useState(1)
  selectedItems,   \* useState([]): a sequence of ids
  editModalOpen,   \* useState(false)
  selectedItem,    \* useState(null): Null or the row being edited
  deleteConfirm,   \* useState({open, itemId, itemName})
  open,            \* dashboard wrapper: useState(false)
  sidebarWidth,    \* dashboard wrapper: useState(220)
  isResizing,      \* dashboard wrapper: useState(false)
  startX,          \* dashboard wrapper: useState(0)
  startWidth,      \* dashboard wrapper: useState(0)
  manualToggle,    \* dashboard wrapper: useState(false)
  formData,        \* edit modal: useState(null), the record being edited
  errors,          \* edit modal: useState({}): field key -> message
  uploadedFiles,   \* edit modal: useState({}): field key -> files
  filePreviewUrls, \* edit modal: useState({}): field key -> object URLs
  objectUrls,      \* the browser: the object URLs created and not revoked
  urlCount,        \* the browser: how many object URLs were ever created
  calls,           \* the collaborator calls made by the last step
  last             \* the handler that made the last step

vars ==
  << props, localData, searchTerm, activeFilters, sortConfig, currentPage,
     selectedItems, editModalOpen, selectedItem, deleteConfirm, formData,
     errors, uploadedFiles, filePreviewUrls, objectUrls, urlCount, open,
     sidebarWidth, isResizing, startX, startWidth, manualToggle, calls,
     last >>

\* The state of the dashboard wrapper around the page.
sideVars ==
  << open, sidebarWidth, isResizing, startX, startWidth, manualToggle >>

\* The dashboard wrapper as mounted.
InitSidebar ==
  /\ open = FALSE
  /\ sidebarWidth = 220
  /\ isResizing = FALSE
  /\ startX = 0
  /\ startWidth = 0
  /\ manualToggle = FALSE

\* The state of the edit modal and of the browser's object URL store.
modalVars ==
  << formData, errors, uploadedFiles, filePreviewUrls, objectUrls, urlCount >>

config == MergeConfig(props.tableConfig)

columns == props.columns

filters == props.filters

formFields == props.formFields

actions == props.actions

\* The Actions cell of a row is rendered.
RowActionsShown == Len(actions) > 0 \/ Len(formFields) > 0

\* An action with the given key is among the custom actions.
HasAction(key) == \E i \in 1..Len(actions) : actions[i].key = key

filteredData ==
  FilteredDataOf(localData, searchTerm, activeFilters, sortConfig, columns,
                 filters, config)

totalPages == TotalPagesOf(filteredData, config)

currentData == PageOf(filteredData, currentPage, config)

\* The ids of a sequence of rows, in order.
IdsOf(rows) == [i \in 1..Len(rows) |-> rows[i].id]

\* The elements of a sequence, as a set.
Range(seq) == {seq[i] : i \in 1..Len(seq)}

\* The closed confirmation: { open: false, itemId: "", itemName: "" }.
NoConfirm == [open |-> FALSE, itemId |-> "", itemName |-> Str(<<>>)]

\* Both dialogs are modal: the table behind an open dialog takes no input.
Interactive == ~deleteConfirm.open /\ ~editModalOpen

Init ==
  /\ \/ props \in PropsChoices /\ localData \in DataSets
     \/ props \in LongProps /\ localData = LongData
  /\ searchTerm = <<>>
  /\ activeFilters = <<>>
  /\ sortConfig = Null
  /\ currentPage = 1
  /\ selectedItems = <<>>
  /\ editModalOpen = FALSE
  /\ selectedItem = Null
  /\ deleteConfirm = NoConfirm
  /\ formData = Null
  /\ errors = <<>>
  /\ uploadedFiles = <<>>
  /\ filePreviewUrls = <<>>
  /\ objectUrls = {}
  /\ urlCount = 0
  /\ InitSidebar
  /\ calls = <<>>
  /\ last = "init"

(* ------------------------- search, filter, sort ----------------------- *)

\* The search box's onChange: setSearchTerm(e.target.value).
SetSearchTerm(term) ==
  /\ Interactive
  /\ config.enableSearch
  /\ term # searchTerm
  /\ searchTerm' = term
  /\ calls' = <<>>
  /\ last' = "setSearchTerm"
  /\ UNCHANGED << sideVars, props, localData, activeFilters, sortConfig,
                  currentPage, selectedItems, editModalOpen, selectedItem,
                  deleteConfirm >>
  /\ UNCHANGED modalVars

\* A select filter's onValueChange: { ...prev, [filter.key]: value }.
\* renderFilters draws a control only for select and date filters.
SetFilter(filterKey, value) ==
  /\ Interactive
  /\ config.enableFilters
  /\ FindFilter(filters, filterKey) # 0
  /\ filters[FindFilter(filters, filterKey)].type = "select"
  /\ activeFilters' =
       [k \in DOMAIN activeFilters \cup {filterKey} |->
          IF k = filterKey THEN value ELSE activeFilters[k]]
  /\ calls' = <<>>
  /\ last' = "setFilter"
  /\ UNCHANGED << sideVars, props, localData, searchTerm, sortConfig,
                  currentPage, selectedItems, editModalOpen, selectedItem,
                  deleteConfirm >>
  /\ UNCHANGED modalVars

\* "Clear Filters", shown while activeFilters has a key.
ClearFilters ==
  /\ Interactive
  /\ config.enableFilters
  /\ Len(filters) > 0
  /\ DOMAIN activeFilters # {}
  /\ activeFilters' = <<>>
  /\ calls' = <<>>
  /\ last' = "clearFilters"
  /\ UNCHANGED << sideVars, props, localData, searchTerm, sortConfig,
                  currentPage, selectedItems, editModalOpen, selectedItem,
                  deleteConfirm >>
  /\ UNCHANGED modalVars

\* A faulty updater that flips between the two directions and never clears.
FlipSortConfig(current, columnKey) ==
  IF current # Null /\ current.key = columnKey /\ current.direction = "asc"
    THEN [key |-> columnKey, direction |-> "desc"]
    ELSE [key |-> columnKey, direction |-> "asc"]

\* The sort spec handleSort's updater returns for a click on columnKey.
NextSortConfig(current, columnKey) ==
  IF current # Null /\ current.key = columnKey
    THEN IF current.direction = "asc"
           THEN [key |-> columnKey, direction |-> "desc"]
           ELSE Null
    ELSE [key |-> columnKey, direction |-> "asc"]

\* A faulty handleSort that sorts by whatever key it is given.
SortsAnyKey(columnKey) == TRUE

\* columns.find((col) => col.key === columnKey)?.sortable
SortsBy(columnKey) ==
  \E i \in 1..Len(columns) :
    /\ columns[i].key = columnKey
    /\ \A j \in 1..(i - 1) : columns[j].key # columnKey
    /\ Sortable(columns[i])

\* handleSort(columnKey): returns early unless the column is sortable.
handleSort(columnKey) ==
  /\ Interactive
  /\ sortConfig' = IF SortsBy(columnKey)
                     THEN NextSortConfig(sortConfig, columnKey)
                     ELSE sortConfig
  /\ calls' = <<>>
  /\ last' = "handleSort"
  /\ UNCHANGED << sideVars, props, localData, searchTerm, activeFilters,
                  currentPage, selectedItems, editModalOpen, selectedItem,
                  deleteConfirm >>
  /\ UNCHANGED modalVars

\* A column header's onClick: column.sortable && handleSort(column.key).
HeaderClick(column) == Sortable(column) /\ handleSort(column.key)

(* ------------------------------ paging -------------------------------- *)

\* generatePageNumbers(): the page links shown, 0 standing for "...".
generatePageNumbers ==
  LET maxVisiblePages == 5
  IN IF totalPages <= maxVisiblePages
       THEN [i \in 1..totalPages |-> i]
     ELSE IF currentPage <= 3
       THEN <<1, 2, 3, 4, 0, totalPages>>
     ELSE IF currentPage >= totalPages - 2
       THEN <<1, 0, totalPages - 3, totalPages - 2, totalPages - 1,
              totalPages>>
     ELSE <<1, 0, currentPage - 1, currentPage, currentPage + 1, 0,
            totalPages>>

\* The pagination bar is rendered.
PaginationShown == config.enablePagination /\ totalPages > 1

\* "Previous": Math.max(1, currentPage - 1); inert on page 1.
PreviousPage ==
  /\ Interactive
  /\ PaginationShown
  /\ currentPage # 1
  /\ currentPage' = IF currentPage - 1 > 1 THEN currentPage - 1 ELSE 1
  /\ calls' = <<>>
  /\ last' = "previousPage"
  /\ UNCHANGED << sideVars, props, localData, searchTerm, activeFilters,
                  sortConfig, selectedItems, editModalOpen, selectedItem,
                  deleteConfirm >>
  /\ UNCHANGED modalVars

\* "Next": Math.min(totalPages, currentPage + 1); inert on the last page.
NextPage ==
  /\ Interactive
  /\ PaginationShown
  /\ currentPage # totalPages
  /\ currentPage' =
       IF currentPage + 1 < totalPages THEN currentPage + 1 ELSE totalPages
  /\ calls' = <<>>
  /\ last' = "nextPage"
  /\ UNCHANGED << sideVars, props, localData, searchTerm, activeFilters,
                  sortConfig, selectedItems, editModalOpen, selectedItem,
                  deleteConfirm >>
  /\ UNCHANGED modalVars

\* A page link: setCurrentPage(pageNum).
GoToPage(pageNum) ==
  /\ Interactive
  /\ PaginationShown
  /\ pageNum \in Range(generatePageNumbers) \ {0}
  /\ pageNum # currentPage
  /\ currentPage' = pageNum
  /\ calls' = <<>>
  /\ last' = "goToPage"
  /\ UNCHANGED << sideVars, props, localData, searchTerm, activeFilters,
                  sortConfig, selectedItems, editModalOpen, selectedItem,
                  deleteConfirm >>
  /\ UNCHANGED modalVars

(* ----------------------------- selection ------------------------------ *)

\* The header checkbox's checked prop.
HeaderChecked ==
  Len(selectedItems) = Len(currentData) /\ Len(currentData) > 0

\* A faulty select-all that takes every filtered row, on any page.
SelectAllFiltered(checked) == IF checked THEN IdsOf(filteredData) ELSE <<>>

\* handleSelectAll(checked): the header checkbox reports the opposite of
\* what it shows.
SelectAllResult(checked) == IF checked THEN IdsOf(currentData) ELSE <<>>

handleSelectAll(checked) ==
  /\ Interactive
  /\ config.enableSelection
  /\ checked = ~HeaderChecked
  /\ selectedItems' = SelectAllResult(checked)
  /\ calls' = <<>>
  /\ last' = IF checked THEN "selectAll" ELSE "deselectAll"
  /\ UNCHANGED << sideVars, props, localData, searchTerm, activeFilters,
                  sortConfig, currentPage, editModalOpen, selectedItem,
                  deleteConfirm >>
  /\ UNCHANGED modalVars

\* handleSelectItem(itemId, checked) from the checkbox of a displayed row,
\* which shows selectedItems.includes(item.id) and reports the opposite.
handleSelectItem(itemId, checked) ==
  /\ Interactive
  /\ config.enableSelection
  /\ itemId \in Range(IdsOf(currentData))
  /\ checked = (itemId \notin Range(selectedItems))
  /\ selectedItems' =
       IF checked THEN Append(selectedItems, itemId)
       ELSE SelectSeq(selectedItems, LAMBDA id : id # itemId)
  /\ calls' = <<>>
  /\ last' = "handleSelectItem"
  /\ UNCHANGED << sideVars, props, localData, searchTerm, activeFilters,
                  sortConfig, currentPage, editModalOpen, selectedItem,
                  deleteConfirm >>
  /\ UNCHANGED modalVars

\* The selection bar (with its bulk actions) is rendered.
SelectionBarShown == config.enableSelection /\ Len(selectedItems) > 0

\* "Clear Selection"
ClearSelection ==
  /\ Interactive
  /\ SelectionBarShown
  /\ selectedItems' = <<>>
  /\ calls' = <<>>
  /\ last' = "clearSelection"
  /\ UNCHANGED << sideVars, props, localData, searchTerm, activeFilters,
                  sortConfig, currentPage, editModalOpen, selectedItem,
                  deleteConfirm >>
  /\ UNCHANGED modalVars

(* ------------------------------- export ------------------------------- *)

\* A faulty Export that hands over every row, matching or not.
ExportAllRows == localData

\* What "Export" hands to onExport.
ExportedData == filteredData

\* filteredData.filter((item) => selectedItems.includes(item.id))
selectedData ==
  SelectSeq(filteredData, LAMBDA item : item.id \in Range(selectedItems))

\* "Export" in the header.
Export ==
  /\ Interactive
  /\ calls' = << [fn |-> "onExport", arg |-> ExportedData] >>
  /\ last' = "export"
  /\ UNCHANGED << sideVars, props, localData, searchTerm, activeFilters,
                  sortConfig, currentPage, selectedItems, editModalOpen,
                  selectedItem, deleteConfirm >>
  /\ UNCHANGED modalVars

\* "Export Selected" in the selection bar.
ExportSelected ==
  /\ Interactive
  /\ SelectionBarShown
  /\ calls' = << [fn |-> "onExport", arg |-> selectedData] >>
  /\ last' = "exportSelected"
  /\ UNCHANGED << sideVars, props, localData, searchTerm, activeFilters,
                  sortConfig, currentPage, selectedItems, editModalOpen,
                  selectedItem, deleteConfirm >>
  /\ UNCHANGED modalVars

(* -------------------------------- edit -------------------------------- *)

\* handleEdit(item), from the Edit button of a displayed row.  The modal's
\* effect on its item prop then copies the item into formData and empties
\* errors, uploadedFiles and filePreviewUrls.
handleEdit(item) ==
  /\ Interactive
  /\ Len(formFields) > 0
  /\ ~HasAction("edit")
  /\ item \in Range(currentData)
  /\ selectedItem' = item
  /\ editModalOpen' = TRUE
  /\ formData' = item
  /\ errors' = <<>>
  /\ uploadedFiles' = <<>>
  /\ filePreviewUrls' = <<>>
  /\ calls' = <<>>
  /\ last' = "handleEdit"
  /\ UNCHANGED << sideVars, props, localData, searchTerm, activeFilters,
                  sortConfig, currentPage, selectedItems, deleteConfirm,
                  objectUrls, urlCount >>

\* A faulty save that overwrites the row the modal was opened on, whatever
\* id the form returns.
SaveOverEditedRow(rows, updatedItem) ==
  [i \in 1..Len(rows) |->
     IF selectedItem # Null /\ rows[i].id = selectedItem.id
       THEN updatedItem ELSE rows[i]]

\* A faulty save that adds the saved record at the end of the rows.
SaveAppending(rows, updatedItem) == Append(rows, updatedItem)

\* localData.map((item) => item.id === updatedItem.id ? updatedItem : item)
SaveUpdatedData(rows, updatedItem) ==
  [i \in 1..Len(rows) |->
     IF rows[i].id = updatedItem.id THEN updatedItem ELSE rows[i]]

\* handleModalSave(updatedItem): the edit modal's onSave, the table's part
\* of a successful handleSave.
handleModalSave(updatedItem) ==
  /\ editModalOpen
  /\ selectedItem # Null
  /\ localData' = SaveUpdatedData(localData, updatedItem)
  /\ calls' = << [fn |-> "onDataChange", arg |-> localData'],
                 [fn |-> "onItemEdit", arg |-> updatedItem] >>
  /\ editModalOpen' = FALSE
  /\ selectedItem' = Null
  /\ last' = "handleModalSave"
  /\ UNCHANGED << sideVars, props, searchTerm, activeFilters, sortConfig,
                  currentPage, selectedItems, deleteConfirm >>

\* The edit modal's onClose prop: the table's part of handleClose.
CloseEditModal ==
  /\ editModalOpen' = FALSE
  /\ selectedItem' = Null

\* The modal is drawn and open: formData is set and the Dialog is open.
ModalShown == editModalOpen /\ formData # Null

\* The position of the first field config with a key, 0 when there is none.
FindField(fieldConfigs, key) ==
  IF \E i \in 1..Len(fieldConfigs) : fieldConfigs[i].key = key
    THEN CHOOSE i \in 1..Len(fieldConfigs) :
           /\ fieldConfigs[i].key = key
           /\ \A j \in 1..(i - 1) : fieldConfigs[j].key # key
    ELSE 0

\* handleInputChange(key, value), from the input of a field that is drawn.
handleInputChange(key, value) ==
  /\ ModalShown
  /\ FindField(formFields, key) # 0
  /\ LET field == formFields[FindField(formFields, key)]
     IN /\ FieldShown(field, formData)
        /\ field.type \notin {"file", "readonly"}
  /\ formData' = WithKey(formData, key, value)
  /\ errors' = [k \in DOMAIN errors \ {key} |-> errors[k]]
  /\ calls' = <<>>
  /\ last' = "handleInputChange"
  /\ UNCHANGED << sideVars, props, localData, searchTerm, activeFilters,
                  sortConfig, currentPage, selectedItems, editModalOpen,
                  selectedItem, deleteConfirm, uploadedFiles,
                  filePreviewUrls, objectUrls, urlCount >>

\* handleFileUpload(fieldKey, files), from the input of a file field: one
\* object URL is created for each of the first five files.
handleFileUpload(fieldKey, files) ==
  /\ ModalShown
  /\ FindField(formFields, fieldKey) # 0
  /\ LET field == formFields[FindField(formFields, fieldKey)]
     IN FieldShown(field, formData) /\ field.type = "file"
  /\ urlCount + Len(Take(files, MaxFilesPerField)) <= MaxUrls
  /\ LET newFiles == Take(files, MaxFilesPerField)
         newUrls == [i \in 1..Len(newFiles) |-> urlCount + i]
     IN /\ uploadedFiles' =
             WithKey(uploadedFiles, fieldKey,
                     Take(ListAt(uploadedFiles, fieldKey) \o newFiles,
                          MaxFilesPerField))
        /\ filePreviewUrls' =
             WithKey(filePreviewUrls, fieldKey,
                     Take(ListAt(filePreviewUrls, fieldKey) \o newUrls,
                          MaxFilesPerField))
        /\ objectUrls' = objectUrls \cup Range(newUrls)
        /\ urlCount' = urlCount + Len(newFiles)
  /\ calls' = <<>>
  /\ last' = "handleFileUpload"
  /\ UNCHANGED << sideVars, props, localData, searchTerm, activeFilters,
                  sortConfig, currentPage, selectedItems, editModalOpen,
                  selectedItem, deleteConfirm, formData, errors >>

\* removeFile(fieldKey, index), from the button on a preview.
removeFile(fieldKey, index) ==
  /\ ModalShown
  /\ index < Len(ListAt(filePreviewUrls, fieldKey))
  /\ uploadedFiles' =
       WithKey(uploadedFiles, fieldKey,
               WithoutIndex(ListAt(uploadedFiles, fieldKey), index))
  /\ filePreviewUrls' =
       WithKey(filePreviewUrls, fieldKey,
               WithoutIndex(ListAt(filePreviewUrls, fieldKey), index))
  /\ objectUrls' = objectUrls \ {ListAt(filePreviewUrls, fieldKey)[index + 1]}
  /\ calls' = <<>>
  /\ last' = "removeFile"
  /\ UNCHANGED << sideVars, props, localData, searchTerm, activeFilters,
                  sortConfig, currentPage, selectedItems, editModalOpen,
                  selectedItem, deleteConfirm, formData, errors, urlCount >>

\* Whether validateForm() returns true for the record in the form.
FormValid == DOMAIN ValidationErrors(formData, formFields) = {}

\* handleSave(), from "Save Changes": validateForm() stores its errors and,
\* when there is none, onSave receives finalData.
handleSave ==
  /\ ModalShown
  /\ errors' = ValidationErrors(formData, formFields)
  /\ IF FormValid
       THEN handleModalSave(FinalData(formData, uploadedFiles))
       ELSE /\ calls' = <<>>
            /\ last' = "handleSave"
            /\ UNCHANGED << sideVars, props, localData, searchTerm, activeFilters,
                            sortConfig, currentPage, selectedItems,
                            editModalOpen, selectedItem, deleteConfirm >>
  /\ UNCHANGED << formData, uploadedFiles, filePreviewUrls, objectUrls,
                  urlCount >>

\* handleClose(), from Cancel and from the Dialog's onOpenChange: the form
\* state is emptied, every preview URL is revoked, then onClose runs.
handleClose ==
  /\ ModalShown
  /\ formData' = Null
  /\ errors' = <<>>
  /\ uploadedFiles' = <<>>
  /\ objectUrls' =
       objectUrls \ UNION {Range(filePreviewUrls[k]) : k \in DOMAIN filePreviewUrls}
  /\ filePreviewUrls' = <<>>
  /\ CloseEditModal
  /\ calls' = <<>>
  /\ last' = "handleClose"
  /\ UNCHANGED << sideVars, props, localData, searchTerm, activeFilters,
                  sortConfig, currentPage, selectedItems, deleteConfirm,
                  urlCount >>

(* ------------------------------- delete ------------------------------- *)

\* item.name?.toString() || item.id
DisplayName(item) ==
  IF ~IsNullish(Field(item, "name")) /\ ToStringV(Field(item, "name")) # <<>>
    THEN Str(ToStringV(Field(item, "name")))
    ELSE [t |-> "id", id |-> item.id]

\* What handleDelete(item) stores in deleteConfirm.
DeleteRequest(item) ==
  [open |-> TRUE, itemId |-> item.id, itemName |-> DisplayName(item)]

\* A faulty Delete button that removes the row at once, asking nothing.
handleDeleteAtOnce(item) ==
  /\ Interactive
  /\ RowActionsShown
  /\ item \in Range(currentData)
  /\ localData' = SelectSeq(localData, LAMBDA r : r.id # item.id)
  /\ calls' = << [fn |-> "onDataChange", arg |-> localData'],
                 [fn |-> "onItemDelete", arg |-> item.id] >>
  /\ last' = "handleDelete"
  /\ UNCHANGED << sideVars, props, searchTerm, activeFilters, sortConfig,
                  currentPage, selectedItems, editModalOpen, selectedItem,
                  deleteConfirm >>
  /\ UNCHANGED modalVars

\* handleDelete(item), from the Delete button of a displayed row.
handleDelete(item) ==
  /\ Interactive
  /\ RowActionsShown
  /\ ~HasAction("delete")
  /\ item \in Range(currentData)
  /\ deleteConfirm' = DeleteRequest(item)
  /\ calls' = <<>>
  /\ last' = "handleDelete"
  /\ UNCHANGED << sideVars, props, localData, searchTerm, activeFilters,
                  sortConfig, currentPage, selectedItems, editModalOpen,
                  selectedItem >>
  /\ UNCHANGED modalVars

\* What "Delete Selected" stores in deleteConfirm.
BulkDeleteRequest ==
  [ open |-> TRUE,
    itemId |-> "bulk",
    itemName |-> Str(NumToString(Len(selectedItems))
                       \o <<" ", "s", "e", "l", "e", "c", "t", "e", "d",
                            " ", "i", "t", "e", "m", "s">>) ]

\* "Delete Selected" in the selection bar.
RequestBulkDelete ==
  /\ Interactive
  /\ SelectionBarShown
  /\ deleteConfirm' = BulkDeleteRequest
  /\ calls' = <<>>
  /\ last' = "requestBulkDelete"
  /\ UNCHANGED << sideVars, props, localData, searchTerm, activeFilters,
                  sortConfig, currentPage, selectedItems, editModalOpen,
                  selectedItem >>
  /\ UNCHANGED modalVars

\* A faulty bulk filter that lost its negation and keeps the selected rows.
KeepSelected(rows, selected) ==
  SelectSeq(rows, LAMBDA item : item.id \in Range(selected))

\* localData.filter((item) => !selectedItems.includes(item.id))
BulkUpdatedData(rows, selected) ==
  SelectSeq(rows, LAMBDA item : item.id \notin Range(selected))

\* localData.filter((item) => item.id !== deleteConfirm.itemId)
SingleUpdatedData(rows, itemId) ==
  SelectSeq(rows, LAMBDA item : item.id # itemId)

\* selectedItems.forEach((id) => onItemDelete?.(id))
BulkDeleteCalls(selected) ==
  [i \in 1..Len(selected) |-> [fn |-> "onItemDelete", arg |-> selected[i]]]

\* "Adjust current page if necessary": newTotalPages.
NewTotalPages(rows, selected, itemId, cfg) ==
  CeilDiv(IF itemId = "bulk"
            THEN Len(BulkUpdatedData(rows, selected))
            ELSE Len(rows) - 1,
          cfg.itemsPerPage)

\* A faulty adjustment that follows newTotalPages down to 0.
AdjustedPageToZero(page, newTotalPages) ==
  IF page > newTotalPages THEN newTotalPages ELSE page

\* The page confirmDelete leaves.
AdjustedPage(page, newTotalPages) ==
  IF page > newTotalPages /\ newTotalPages > 0 THEN newTotalPages ELSE page

\* A faulty dialog whose Delete button can be pressed at any time.
ConfirmAlwaysEnabled == TRUE

\* The dialog's Delete button is rendered while deleteConfirm.open.
ConfirmEnabled == deleteConfirm.open

\* confirmDelete(), from the Delete button of the confirmation dialog.
confirmDelete ==
  /\ ConfirmEnabled
  /\ IF deleteConfirm.itemId = "bulk"
       THEN /\ localData' = BulkUpdatedData(localData, selectedItems)
            /\ calls' = << [fn |-> "onDataChange", arg |-> localData'] >>
                          \o BulkDeleteCalls(selectedItems)
            /\ selectedItems' = <<>>
       ELSE /\ localData' = SingleUpdatedData(localData, deleteConfirm.itemId)
            /\ calls' = << [fn |-> "onDataChange", arg |-> localData'],
                           [fn |-> "onItemDelete",
                            arg |-> deleteConfirm.itemId] >>
            /\ UNCHANGED selectedItems
  /\ deleteConfirm' = NoConfirm
  /\ currentPage' =
       AdjustedPage(currentPage,
                    NewTotalPages(localData, selectedItems,
                                  deleteConfirm.itemId, config))
  /\ last' = "confirmDelete"
  /\ UNCHANGED << sideVars, props, searchTerm, activeFilters, sortConfig,
                  editModalOpen, selectedItem >>
  /\ UNCHANGED modalVars

\* The dialog's Cancel button and its onOpenChange (dismissal).
CancelDelete ==
  /\ deleteConfirm.open
  /\ deleteConfirm' = NoConfirm
  /\ calls' = <<>>
  /\ last' = "cancelDelete"
  /\ UNCHANGED << sideVars, props, localData, searchTerm, activeFilters,
                  sortConfig, currentPage, selectedItems, editModalOpen,
                  selectedItem >>
  /\ UNCHANGED modalVars

(* ------------------------------ re-seed ------------------------------- *)

\* useEffect(() => setLocalData(data), [data]): the parent passes new data.
Reseed(data) ==
  /\ localData' = data
  /\ calls' = <<>>
  /\ last' = "reseed"
  /\ UNCHANGED << sideVars, props, searchTerm, activeFilters, sortConfig,
                  currentPage, selectedItems, editModalOpen, selectedItem,
                  deleteConfirm >>
  /\ UNCHANGED modalVars

(* --------------------------- specification ---------------------------- *)

Next ==
  \/ \E term \in SearchTerms : SetSearchTerm(term)
  \/ \E value \in SelectOptions \cup {Str(<<"a", "l", "l">>)} :
       SetFilter("name", value)
  \/ ClearFilters
  \/ \E i \in 1..Len(columns) : HeaderClick(columns[i])
  \/ PreviousPage
  \/ NextPage
  \/ \E pageNum \in 1..totalPages : GoToPage(pageNum)
  \/ \E checked \in BOOLEAN : handleSelectAll(checked)
  \/ \E i \in 1..Len(localData), checked \in BOOLEAN :
       handleSelectItem(localData[i].id, checked)
  \/ ClearSelection
  \/ Export
  \/ ExportSelected
  \/ \E i \in 1..Len(localData) : handleEdit(localData[i])
  \/ \E i \in 1..Len(formFields) :
       \E value \in FieldInputs(formFields[i].key) :
         handleInputChange(formFields[i].key, value)
  \/ handleSave
  \/ handleClose
  \/ \E i \in 1..Len(localData) : handleDelete(localData[i])
  \/ RequestBulkDelete
  \/ confirmDelete
  \/ CancelDelete
  \/ \E data \in DataSets : Reseed(data)

Spec == Init /\ [][Next]_vars

(* ---------------------- the query pipeline alone ---------------------- *)

\* The longest data array of the pipeline's specification.
MaxQueryRows == 3

\* Rows for the pipeline: a capitalised and a lower-case name, a name that
\* holds one letter of them, a null name, a null and a missing score.
QueryRows ==
  { [id |-> "1", name |-> Str(<<"A", "l">>), score |-> Num(10)],
    [id |-> "2", name |-> Str(<<"A", "d", "a">>), score |-> Num(5)],
    [id |-> "3", name |-> Str(<<"a", "l">>), score |-> Null],
    [id |-> "4", name |-> Null] }

RECURSIVE Arrangements(_, _)
\* The sequences of at most n pairwise distinct elements of S.
Arrangements(S, n) ==
  IF n = 0 THEN {<<>>}
  ELSE {<<>>} \cup
       UNION {{<<x>> \o rest : rest \in Arrangements(S \ {x}, n - 1)} : x \in S}

QueryDataSets == Arrangements(QueryRows, MaxQueryRows)

QueryTerms == {<<>>, <<"a">>, <<"A", "l">>, <<"1">>, <<"-">>}

QueryProps ==
  { [ tableConfig |-> [itemsPerPage |-> n],
      columns |-> AllSortableColumns, filters |-> NameScoreFilters,
      formFields |-> <<>>, actions |-> <<>> ]
      : n \in 1..MaxPerPage }

\* The grid mounted on any of the data arrays, then driven only through
\* the inputs of filteredData and currentData.
InitQuery ==
  /\ props \in QueryProps
  /\ localData \in QueryDataSets
  /\ searchTerm = <<>>
  /\ activeFilters = <<>>
  /\ sortConfig = Null
  /\ currentPage = 1
  /\ selectedItems = <<>>
  /\ editModalOpen = FALSE
  /\ selectedItem = Null
  /\ deleteConfirm = NoConfirm
  /\ formData = Null
  /\ errors = <<>>
  /\ uploadedFiles = <<>>
  /\ filePreviewUrls = <<>>
  /\ objectUrls = {}
  /\ urlCount = 0
  /\ InitSidebar
  /\ calls = <<>>
  /\ last = "init"

NextQuery ==
  \/ \E term \in QueryTerms : SetSearchTerm(term)
  \/ \E value \in SelectOptions \cup {Str(<<"a", "l", "l">>)} :
       SetFilter("name", value)
  \/ ClearFilters
  \/ \E i \in 1..Len(columns) : HeaderClick(columns[i])
  \/ PreviousPage
  \/ NextPage
  \/ \E pageNum \in 1..MaxQueryRows : GoToPage(pageNum)

SpecQuery == InitQuery /\ [][NextQuery]_vars

(* -------------------------- the edit form alone ----------------------- *)

\* The rows under the form: one with a score, one without.
ModalRows ==
  << [id |-> "1", name |-> Str(<<"A", "l">>), score |-> Num(10)],
     [id |-> "2", name |-> Str(<<"B", "o">>), score |-> Null] >>

ModalProps ==
  { [ tableConfig |-> [itemsPerPage |-> MaxPerPage],
      columns |-> PlainColumns, filters |-> <<>>,
      formFields |-> fields, actions |-> <<>> ]
      : fields \in {ValidatedFields, UploadFields} }

\* What the user types into a field of the form: nothing, a blank, a name;
\* numbers below, within and above the range of the score.
ModalTexts(key) ==
  CASE key = "name" -> {<<>>, <<" ">>, <<"B", "o">>}
    [] key = "score" -> {<<>>, <<"5">>, <<"7">>, <<"1", "0">>}
    [] key = "note" -> {<<"x">>}
    [] OTHER -> {}

\* A File of a FileList.
File(n) == [t |-> "file", n |-> n]

\* The FileLists the user picks: one file, or one more than a field keeps.
FileLists ==
  {[i \in 1..k |-> File(i)] : k \in {1, MaxFilesPerField + 1}}

InitModal ==
  /\ props \in ModalProps
  /\ localData = ModalRows
  /\ searchTerm = <<>>
  /\ activeFilters = <<>>
  /\ sortConfig = Null
  /\ currentPage = 1
  /\ selectedItems = <<>>
  /\ editModalOpen = FALSE
  /\ selectedItem = Null
  /\ deleteConfirm = NoConfirm
  /\ formData = Null
  /\ errors = <<>>
  /\ uploadedFiles = <<>>
  /\ filePreviewUrls = <<>>
  /\ objectUrls = {}
  /\ urlCount = 0
  /\ InitSidebar
  /\ calls = <<>>
  /\ last = "init"

NextModal ==
  \/ \E i \in 1..Len(localData) : handleEdit(localData[i])
  \/ \E i \in 1..Len(formFields) :
       \E text \in ModalTexts(formFields[i].key) :
         handleInputChange(formFields[i].key, InputValue(formFields[i], text))
  \/ \E files \in FileLists : handleFileUpload("photo", files)
  \/ \E index \in 0..(MaxFilesPerField - 1) : removeFile("photo", index)
  \/ handleSave
  \/ handleClose

SpecModal == InitModal /\ [][NextModal]_vars

(* ------------------------ the configuration alone --------------------- *)

\* The tableConfig prop left out.
EmptyConfig == [k \in {} |-> TRUE]

\* The options of TableConfig that are switches.
SwitchOptions ==
  { "enableSearch", "enableFilters", "enablePagination", "enableSelection",
    "enableSorting", "stickyHeader", "striped", "bordered", "compact" }

\* tableConfig props: none, one switch set either way, a page size, a
\* title, and two options at once.
TableConfigs ==
  {EmptyConfig}
    \cup {[k \in {option} |-> value] : option \in SwitchOptions, value \in BOOLEAN}
    \cup {[itemsPerPage |-> n] : n \in 1..MaxPerPage}
    \cup {[title |-> "Players"]}
    \cup {[itemsPerPage |-> n, enableSelection |-> TRUE] : n \in 1..MaxPerPage}
    \cup {[striped |-> FALSE, bordered |-> TRUE]}

\* Columns props: well-formed, and with a sortable column whose key no
\* row holds.
ConfigColumns ==
  { SortableColumns,
    SortableColumns \o << [key |-> "rank", type |-> "number",
                           sortable |-> TRUE] >> }

\* The keys handleSort is called with: a sortable column's, an unsortable
\* column's, and no column's.
SortKeys == {"score", "name", "ghost"}

ConfigProps ==
  { [ tableConfig |-> tc,
      columns |-> cols, filters |-> <<>>,
      formFields |-> <<>>, actions |-> <<>> ]
      : tc \in TableConfigs, cols \in ConfigColumns }

\* The grid mounted with any of the tableConfig props over the same rows.
InitConfig ==
  /\ props \in ConfigProps
  /\ localData = RowPool
  /\ searchTerm = <<>>
  /\ activeFilters = <<>>
  /\ sortConfig = Null
  /\ currentPage = 1
  /\ selectedItems = <<>>
  /\ editModalOpen = FALSE
  /\ selectedItem = Null
  /\ deleteConfirm = NoConfirm
  /\ formData = Null
  /\ errors = <<>>
  /\ uploadedFiles = <<>>
  /\ filePreviewUrls = <<>>
  /\ objectUrls = {}
  /\ urlCount = 0
  /\ InitSidebar
  /\ calls = <<>>
  /\ last = "init"

\* The handlers the switches and the page size gate.
NextConfig ==
  \/ \E term \in SearchTerms : SetSearchTerm(term)
  \/ \E i \in 1..Len(columns) : HeaderClick(columns[i])
  \/ \E columnKey \in SortKeys : handleSort(columnKey)
  \/ PreviousPage
  \/ NextPage
  \/ \E pageNum \in 1..Len(RowPool) : GoToPage(pageNum)
  \/ \E checked \in BOOLEAN : handleSelectAll(checked)
  \/ \E i \in 1..Len(localData), checked \in BOOLEAN :
       handleSelectItem(localData[i].id, checked)
  \/ ClearSelection

SpecConfig == InitConfig /\ [][NextConfig]_vars

(* ------------------------- the filter stage alone --------------------- *)

\* Rows for the filter stage: a zero, a number, a digit string and a
\* missing score; a null name.
FilterRows ==
  << [id |-> "1", name |-> Str(<<"A", "l">>), score |-> Num(0)],
     [id |-> "2", name |-> Str(<<"B", "o">>), score |-> Num(5)],
     [id |-> "3", name |-> Str(<<"A", "l">>), score |-> Str(<<"5">>)],
     [id |-> "4", name |-> Null] >>

\* A filters prop: a select filter, a number filter and one of a type the
\* switch does not know.
MixedFilters ==
  << [key |-> "name", type |-> "select"],
     [key |-> "score", type |-> "number"],
     [key |-> "tag", type |-> "custom"] >>

\* The values an entry of activeFilters holds, by key; "ghost" is the key
\* of no filter.
FilterValues(key) ==
  CASE key = "name" -> {Str(<<"A", "l">>), Str(<<"a", "l", "l">>)}
    [] key = "score" -> {Num(0), Num(5), Str(<<"5">>), Str(<<"a", "l", "l">>),
                         Undefined}
    [] OTHER -> {Str(<<"x">>)}

\* The activeFilters mappings: any entries over the four keys.
ActiveFilterStates ==
  LET mappings ==
        UNION { [keys -> UNION {FilterValues(k) : k \in keys}]
                  : keys \in SUBSET {"name", "score", "tag", "ghost"} }
  IN {af \in mappings : \A k \in DOMAIN af : af[k] \in FilterValues(k)}

FilterProps ==
  { [ tableConfig |-> [itemsPerPage |-> n, enableFilters |-> enabled],
      columns |-> PlainColumns, filters |-> MixedFilters,
      formFields |-> <<>>, actions |-> <<>> ]
      : n \in 1..MaxPerPage, enabled \in BOOLEAN }

\* The grid over the rows with any of the activeFilters mappings.
InitFilter ==
  /\ props \in FilterProps
  /\ localData = FilterRows
  /\ searchTerm = <<>>
  /\ activeFilters \in ActiveFilterStates
  /\ sortConfig = Null
  /\ currentPage = 1
  /\ selectedItems = <<>>
  /\ editModalOpen = FALSE
  /\ selectedItem = Null
  /\ deleteConfirm = NoConfirm
  /\ formData = Null
  /\ errors = <<>>
  /\ uploadedFiles = <<>>
  /\ filePreviewUrls = <<>>
  /\ objectUrls = {}
  /\ urlCount = 0
  /\ InitSidebar
  /\ calls = <<>>
  /\ last = "init"

NextFilter ==
  \/ \E value \in FilterValues("name") : SetFilter("name", value)
  \/ ClearFilters
  \/ PreviousPage
  \/ NextPage
  \/ \E pageNum \in 1..totalPages : GoToPage(pageNum)

SpecFilter == InitFilter /\ [][NextFilter]_vars

(* -------------------------- dashboard wrapper ------------------------- *)

minWidth == 72

maxWidth == 400

\* The state of the page the wrapper holds.
pageVars ==
  << props, localData, searchTerm, activeFilters, sortConfig, currentPage,
     selectedItems, editModalOpen, selectedItem, deleteConfirm, modalVars >>

\* A faulty clamp that forgot the lower bound.
ClampBelowMax(width) == IF width < maxWidth THEN width ELSE maxWidth

\* Math.min(Math.max(width, minWidth), maxWidth)
Clamp(width) ==
  LET atLeast == IF width > minWidth THEN width ELSE minWidth
  IN IF atLeast < maxWidth THEN atLeast ELSE maxWidth

\* The width the manual toggle effect sets.
ToggledWidth(isOpen) == IF isOpen THEN 220 ELSE minWidth

\* handleMouseDown(e) on the resize border; the toggle effect that the
\* change of isResizing schedules finds a resize in progress.
handleMouseDown(clientX) ==
  /\ isResizing' = TRUE
  /\ startX' = clientX
  /\ startWidth' = sidebarWidth
  /\ calls' = <<>>
  /\ last' = "handleMouseDown"
  /\ UNCHANGED << open, sidebarWidth, manualToggle, pageVars >>

\* handleMouseMove(e), a document listener while isResizing.
handleMouseMove(clientX) ==
  /\ isResizing
  /\ LET deltaX == clientX - startX
         newWidth == Clamp(startWidth + deltaX)
     IN /\ sidebarWidth' = newWidth
        /\ open' = ~(newWidth <= minWidth + 20)
  /\ calls' = <<>>
  /\ last' = "handleMouseMove"
  /\ UNCHANGED << isResizing, startX, startWidth, manualToggle, pageVars >>

\* handleMouseUp(), a document listener while isResizing, and the toggle
\* effect that the change of isResizing schedules.
handleMouseUp ==
  /\ isResizing
  /\ isResizing' = FALSE
  /\ IF manualToggle
       THEN /\ sidebarWidth' = ToggledWidth(open)
            /\ manualToggle' = FALSE
       ELSE UNCHANGED << sidebarWidth, manualToggle >>
  /\ calls' = <<>>
  /\ last' = "handleMouseUp"
  /\ UNCHANGED << open, startX, startWidth, pageVars >>

\* handleToggleClick() and the toggle effect it schedules.
handleToggleClick ==
  /\ open' = ~open
  /\ IF ~isResizing
       THEN /\ sidebarWidth' = ToggledWidth(open')
            /\ manualToggle' = FALSE
       ELSE /\ manualToggle' = TRUE
            /\ UNCHANGED sidebarWidth
  /\ calls' = <<>>
  /\ last' = "handleToggleClick"
  /\ UNCHANGED << isResizing, startX, startWidth, pageVars >>

\* Where the mouse is, e.clientX.
MouseXs == {0, 20, 100, 400}

\* The wrapper around an empty grid.
InitSide ==
  /\ props \in LongProps
  /\ localData = <<>>
  /\ searchTerm = <<>>
  /\ activeFilters = <<>>
  /\ sortConfig = Null
  /\ currentPage = 1
  /\ selectedItems = <<>>
  /\ editModalOpen = FALSE
  /\ selectedItem = Null
  /\ deleteConfirm = NoConfirm
  /\ formData = Null
  /\ errors = <<>>
  /\ uploadedFiles = <<>>
  /\ filePreviewUrls = <<>>
  /\ objectUrls = {}
  /\ urlCount = 0
  /\ InitSidebar
  /\ calls = <<>>
  /\ last = "init"

NextSide ==
  \/ \E clientX \in MouseXs : handleMouseDown(clientX)
  \/ \E clientX \in MouseXs : handleMouseMove(clientX)
  \/ handleMouseUp
  \/ handleToggleClick

SpecSide == InitSide /\ [][NextSide]_vars

(* ------------------------------ properties ---------------------------- *)

Max(a, b) == IF a >= b THEN a ELSE b

\* How many elements of a sequence equal x.
Count(seq, x) == Cardinality({i \in 1..Len(seq) : seq[i] = x})

\* The ids of the rows as a set.
RowIds == Range(IdsOf(localData))

\* The ids the last step passed to onItemDelete, in call order.
Notified ==
  LET deletes == SelectSeq(calls, LAMBDA c : c.fn = "onItemDelete")
  IN [i \in 1..Len(deletes) |-> deletes[i].arg]

\* C1: a delete request, from a row's Delete button or from "Delete
\* Selected", only opens the confirmation: rows, selection and page stay as
\* they were and no collaborator is called.  An id leaves the rows only in
\* a confirmDelete step or when the parent re-seeds the data.
C1_RequestNeverMutates ==
  [][ /\ last' \in {"handleDelete", "requestBulkDelete"} =>
           /\ deleteConfirm'.open
           /\ localData' = localData
           /\ selectedItems' = selectedItems
           /\ currentPage' = currentPage
           /\ calls' = <<>>
      /\ ~(RowIds \subseteq RowIds') => last' \in {"confirmDelete", "reseed"}
    ]_vars

\* A delete was requested on a page of a non-empty table and is pending.
C1_Witness ==
  /\ last = "handleDelete"
  /\ deleteConfirm.open
  /\ deleteConfirm.itemId \in RowIds

\* C2: after a confirmed delete, a page index that would lie beyond the
\* last page of the filtered rows that remain is clamped to
\* max(1, totalPages).
C2_PageClampedToFiltered ==
  [][ last' = "confirmDelete" /\ currentPage > totalPages' =>
        currentPage' = Max(1, totalPages') ]_vars

\* C3: the ids of the rows are pairwise distinct in every reachable state.
C3_IdsUnique == Cardinality(RowIds) = Len(localData)

\* A save whose form changed the id of the edited row to the id of another
\* row has happened: the other row is overwritten, the edited one is kept.
C3_Witness ==
  /\ last = "handleModalSave"
  /\ Len(localData) >= 2
  /\ \E i, j \in 1..Len(localData) :
       /\ i # j
       /\ localData[i].name = localData[j].name
       /\ localData[i].score = localData[j].score

\* C4: a confirmed bulk delete calls onItemDelete exactly once for each id
\* that the step removed from the rows, and for no other id.
C4_NotifiesExactlyRemoved ==
  [][ last' = "confirmDelete" /\ deleteConfirm.itemId = "bulk" =>
        \A id \in RowIds \cup Range(Notified') :
           Count(Notified', id) = IF id \in RowIds \ RowIds' THEN 1 ELSE 0
    ]_vars

\* C5: a confirmed bulk delete leaves the previous rows without those whose
\* id was selected, in their order, passes that sequence to onDataChange
\* and leaves the selection empty.
C5_BulkDeleteResult ==
  [][ last' = "confirmDelete" /\ deleteConfirm.itemId = "bulk" =>
        /\ localData' =
             SelectSeq(localData, LAMBDA r : r.id \notin Range(selectedItems))
        /\ calls'[1] = [fn |-> "onDataChange", arg |-> localData']
        /\ Count(calls', calls'[1]) = 1
        /\ \A i \in 2..Len(calls') : calls'[i].fn # "onDataChange"
        /\ selectedItems' = <<>>
    ]_vars

\* A bulk delete over a selection of two ids has happened and left a row.
C5_Witness ==
  /\ last = "confirmDelete"
  /\ Len(Notified) >= 2
  /\ Len(localData) >= 1
  /\ selectedItems = <<>>

\* C6: the confirmation is idle or pending.  Cancelling or dismissing it
\* returns to idle (open false, itemId "") with rows, selection and page as
\* they were and no collaborator called; confirming returns to idle too;
\* confirmDelete runs only from pending, which only a delete request enters
\* and only Cancel or Confirm leave.
C6_TwoStepConfirm ==
  [][ /\ last' = "cancelDelete" =>
           /\ deleteConfirm.open
           /\ localData' = localData
           /\ selectedItems' = selectedItems
           /\ currentPage' = currentPage
           /\ calls' = <<>>
      /\ last' = "confirmDelete" => deleteConfirm.open
      /\ last' \in {"cancelDelete", "confirmDelete"} =>
           ~deleteConfirm'.open /\ deleteConfirm'.itemId = ""
      /\ ~deleteConfirm.open /\ deleteConfirm'.open =>
           last' \in {"handleDelete", "requestBulkDelete"}
      /\ deleteConfirm.open /\ ~deleteConfirm'.open =>
           last' \in {"cancelDelete", "confirmDelete"}
    ]_vars

\* A pending delete of selected rows has been cancelled.
C6_Witness ==
  /\ last = "cancelDelete"
  /\ ~deleteConfirm.open
  /\ selectedItems # <<>>
  /\ Range(selectedItems) \subseteq RowIds

RECURSIVE PagesThrough(_)
\* The pages 1..p of the filtered rows, one after the other.
PagesThrough(p) ==
  IF p <= 0 THEN <<>>
  ELSE PagesThrough(p - 1) \o PageOf(filteredData, p, config)

\* C7: with pagination enabled and itemsPerPage >= 1, the pages 1 to
\* totalPages, one after the other, are exactly the filtered rows: no row
\* is omitted, none shown twice, and the order is kept.
C7_PagesCoverFiltered ==
  config.enablePagination /\ config.itemsPerPage >= 1 =>
    PagesThrough(totalPages) = filteredData

\* Searched and sorted rows fill more than one page, the last one partly.
C7_Witness ==
  /\ config.enablePagination
  /\ totalPages >= 2
  /\ Len(filteredData) % config.itemsPerPage # 0
  /\ sortConfig # Null
  /\ searchTerm # <<>>

\* The values of a column down a sequence of rows.
ColumnOf(rows, key) == [i \in 1..Len(rows) |-> Field(rows[i], key)]

\* C8: whatever the direction, sorting by a key puts every row whose value
\* for the key is null or undefined after every row that has a value; the
\* scores [null, 10, 5] come out [5, 10, null] ascending and [10, 5, null]
\* descending.
C8_NullsLast ==
  config.enableSorting /\ sortConfig # Null =>
    LET sorted == ColumnOf(filteredData, sortConfig.key)
    IN /\ \A i, j \in 1..Len(sorted) :
            i < j /\ IsNullish(sorted[i]) => IsNullish(sorted[j])
       /\ /\ sortConfig.key = "score"
          /\ ColumnOf(localData, "score") = <<Null, Num(10), Num(5)>>
          /\ Len(filteredData) = 3
          => sorted = IF sortConfig.direction = "asc"
                        THEN <<Num(5), Num(10), Null>>
                        ELSE <<Num(10), Num(5), Null>>

\* The scores [null, 10, 5] have been sorted descending.
C8_Witness ==
  /\ sortConfig # Null
  /\ sortConfig.key = "score"
  /\ sortConfig.direction = "desc"
  /\ ColumnOf(localData, "score") = <<Null, Num(10), Num(5)>>
  /\ ColumnOf(filteredData, "score") = <<Num(10), Num(5), Null>>

\* The contiguous parts of a string, the empty one and itself included.
Substrings(t) ==
  {SubSeq(t, i, j) : i \in 1..(Len(t) + 1), j \in 0..Len(t)}

\* The rows the search stage keeps for a term.
SearchKeeps(term) == Range(ApplySearch(localData, term, columns, config))

\* C9: over the same rows, the search keeps for a term only rows it keeps
\* for every prefix and every substring of the term.
C9_SearchMonotone ==
  \A T1 \in Substrings(searchTerm) : SearchKeeps(searchTerm) \subseteq SearchKeeps(T1)

\* A two-letter term keeps some rows, and fewer than one of its letters.
C9_Witness ==
  /\ last = "setSearchTerm"
  /\ Len(searchTerm) = 2
  /\ SearchKeeps(searchTerm) # {}
  /\ \E T1 \in Substrings(searchTerm) :
       /\ Len(T1) = 1
       /\ SearchKeeps(T1) # SearchKeeps(searchTerm)
       /\ SearchKeeps(T1) # Range(localData)

\* C10: handleSelectAll(true) makes the selection exactly the ids of the
\* rows on the current page, in their order; handleSelectAll(false)
\* empties it.
C10_SelectAllIsPage ==
  /\ last = "selectAll" => selectedItems = IdsOf(currentData)
  /\ last = "deselectAll" => selectedItems = <<>>

\* Select-all has been used on a page that shows only part of the filtered
\* rows.
C10_Witness ==
  /\ last = "selectAll"
  /\ Len(currentData) >= 1
  /\ Len(filteredData) > Len(currentData)
  /\ selectedItems = IdsOf(currentData)

\* C11: a successful save replaces the row whose id is the saved record's
\* by the saved record, in place, and leaves every other row and the number
\* of rows as they were; onDataChange receives the new rows, onItemEdit the
\* saved record, which holds what the form held; the form closes
\* (editModalOpen false, selectedItem null).
C11_SaveReplacesInPlace ==
  [][ last' = "handleModalSave" =>
        /\ Len(calls') = 2
        /\ LET saved == calls'[2].arg
           IN /\ calls'[2].fn = "onItemEdit"
              /\ \A k \in DOMAIN formData \ DOMAIN uploadedFiles :
                   saved[k] = formData[k]
              /\ Len(localData') = Len(localData)
              /\ \A i \in 1..Len(localData) :
                   localData'[i] = IF localData[i].id = saved.id
                                     THEN saved ELSE localData[i]
        /\ calls'[1] = [fn |-> "onDataChange", arg |-> localData']
        /\ ~editModalOpen'
        /\ selectedItem' = Null
    ]_vars

\* A renamed record has been saved over the first of two or more rows.
C11_Witness ==
  /\ last = "handleModalSave"
  /\ Len(localData) >= 2
  /\ ~editModalOpen
  /\ calls[2].arg = localData[1]
  /\ localData[1].name = Str(<<"B", "o">>)

\* A handleSave step: it ends blocked or in the table's handleModalSave.
SaveStep == last' \in {"handleSave", "handleModalSave"}

\* The value is missing, or a string of nothing but blanks.
MissingOrBlank(value) ==
  \/ IsNullish(value)
  \/ value.t = "str" /\ \A i \in 1..Len(value.s) : value.s[i] = " "

\* C12: when a required field is missing or blank after trimming,
\* handleSave stores exactly "<label> is required" for it and does not
\* call onSave; onSave is called only when validation found no error.
C12_ValidationBlocksSave ==
  [][ SaveStep =>
        /\ \A i \in 1..Len(formFields) :
             LET field == formFields[i]
             IN IsRequired(field)
                  /\ MissingOrBlank(FormValue(formData, field.key)) =>
                  /\ field.key \in DOMAIN errors'
                  /\ errors'[field.key] =
                       field.label \o <<" ", "i", "s", " ", "r", "e", "q",
                                        "u", "i", "r", "e", "d">>
                  /\ last' = "handleSave"
        /\ last' = "handleSave" =>
             /\ calls' = <<>>
             /\ localData' = localData
             /\ editModalOpen'
             /\ DOMAIN errors' # {}
        /\ last' = "handleModalSave" => DOMAIN errors' = {}
    ]_vars

\* A save was blocked by a name that holds only a blank.
C12_Witness ==
  /\ last = "handleSave"
  /\ editModalOpen
  /\ formData.name = Str(<<" ">>)
  /\ "name" \in DOMAIN errors
  /\ errors.name = <<"N", "a", "m", "e", " ", "i", "s", " ", "r", "e", "q",
                     "u", "i", "r", "e", "d">>

\* C13: validateForm records no error, not even "is required", for a field
\* whose showWhen is false for the record, so a hidden field never blocks
\* the save.
C13_HiddenFieldsNotValidated ==
  [][ SaveStep =>
        \A i \in 1..Len(formFields) :
          ~FieldShown(formFields[i], formData) =>
            formFields[i].key \notin DOMAIN errors'
    ]_vars

\* C14: for a field with validation.min (validation.max), a number in the
\* record below min (above max) makes validateForm store the "must be at
\* least" ("must be no more than") message for the field, and the save is
\* blocked.
C14_RangeChecked ==
  [][ SaveStep =>
        \A i \in 1..Len(formFields) :
          LET field == formFields[i]
              value == FormValue(formData, field.key)
              Rule(name) ==
                /\ "validation" \in DOMAIN field
                /\ name \in DOMAIN field.validation
                /\ value.t = "num"
          IN /\ Rule("min") /\ value.n < field.validation.min =>
                  /\ last' = "handleSave"
                  /\ field.key \in DOMAIN errors'
                  /\ errors'[field.key] =
                       field.label
                         \o <<" ", "m", "u", "s", "t", " ", "b", "e", " ",
                              "a", "t", " ", "l", "e", "a", "s", "t", " ">>
                         \o NumToString(field.validation.min)
             /\ Rule("max") /\ value.n > field.validation.max =>
                  /\ last' = "handleSave"
                  /\ field.key \in DOMAIN errors'
                  /\ errors'[field.key] =
                       field.label
                         \o <<" ", "m", "u", "s", "t", " ", "b", "e", " ",
                              "n", "o", " ", "m", "o", "r", "e", " ", "t",
                              "h", "a", "n", " ">>
                         \o NumToString(field.validation.max)
    ]_vars

\* C15: once the form is closed, whether by a save or by Cancel or
\* dismissal, no object URL that handleFileUpload created is left
\* unrevoked.
C15_NoUrlLeftWhenClosed == ~editModalOpen => objectUrls = {}

\* The defaults the table documents, with the rows striped.
DocumentedDefaults ==
  [ itemsPerPage |-> 10,
    enableSearch |-> TRUE,
    enableFilters |-> TRUE,
    enablePagination |-> TRUE,
    enableSorting |-> TRUE,
    enableSelection |-> FALSE,
    striped |-> TRUE,
    bordered |-> FALSE,
    compact |-> FALSE ]

\* C16 (amended): the configuration resolves every recognized option: with
\* an empty tableConfig search, filters, pagination and sorting are enabled,
\* itemsPerPage is 10, selection is disabled and the layout is striped,
\* non-bordered and non-compact; each supplied option overrides exactly its
\* own default and no other.
C16_ConfigResolved ==
  /\ DOMAIN DocumentedDefaults \subseteq DOMAIN config
  /\ DOMAIN props.tableConfig \subseteq DOMAIN config
  /\ \A k \in DOMAIN props.tableConfig : config[k] = props.tableConfig[k]
  /\ \A k \in DOMAIN DocumentedDefaults \ DOMAIN props.tableConfig :
       config[k] = DocumentedDefaults[k]

\* A handler has run under a tableConfig that overrides the page size and
\* the selection switch and leaves the layout alone.
C16_Witness ==
  /\ DOMAIN props.tableConfig = {"itemsPerPage", "enableSelection"}
  /\ props.tableConfig.itemsPerPage = 1
  /\ last = "selectAll"
  /\ currentPage = 2
  /\ config.striped

\* C16 as stated: the same, with a non-striped layout for an option left out.
C16_NonStripedDefault ==
  /\ \A k \in DOMAIN props.tableConfig : config[k] = props.tableConfig[k]
  /\ \A k \in DOMAIN DocumentedDefaults \ DOMAIN props.tableConfig :
       config[k] = IF k = "striped" THEN FALSE ELSE DocumentedDefaults[k]

\* The step confirms the request "Delete Selected" made.
ConfirmsBulkDelete ==
  last' = "confirmDelete" /\ deleteConfirm = BulkDeleteRequest

\* C17: changing the search term, setting or clearing a filter, toggling
\* the sort and moving to another page leave selectedItems unchanged;
\* selectedItems changes only through per-row select and deselect, select
\* all and deselect all, Clear Selection and a confirmed bulk delete.
C17_SelectionPersists ==
  [][ /\ last' \in {"setSearchTerm", "setFilter", "clearFilters",
                    "handleSort", "previousPage", "nextPage", "goToPage"} =>
           selectedItems' = selectedItems
      /\ selectedItems' # selectedItems =>
           \/ last' \in {"handleSelectItem", "selectAll", "deselectAll",
                         "clearSelection"}
           \/ ConfirmsBulkDelete
    ]_vars

\* C18: currentPage is at least 1 in every state reached through Previous,
\* Next, the page links, search, filter and sort changes, edits and
\* confirmed single or bulk deletes.
C18_PageAtLeastOne == currentPage >= 1

\* A confirmed delete has removed the last row on a page past which nothing
\* is left.
C18_Witness ==
  /\ last = "confirmDelete"
  /\ localData = <<>>
  /\ currentPage = 1

\* C19: "Export" passes the full filtered sequence to onExport and "Export
\* Selected" passes the rows of it whose id is in selectedItems; neither
\* changes rows, searchTerm, activeFilters, sortConfig, currentPage or
\* selectedItems.
C19_ExportChangesNothing ==
  [][ /\ last' = "export" =>
           calls' = << [fn |-> "onExport", arg |-> filteredData] >>
      /\ last' = "exportSelected" =>
           /\ Len(calls') = 1
           /\ calls'[1].fn = "onExport"
           /\ calls'[1].arg =
                SelectSeq(filteredData,
                          LAMBDA row : row.id \in Range(selectedItems))
      /\ last' \in {"export", "exportSelected"} =>
           /\ localData' = localData
           /\ searchTerm' = searchTerm
           /\ activeFilters' = activeFilters
           /\ sortConfig' = sortConfig
           /\ currentPage' = currentPage
           /\ selectedItems' = selectedItems
    ]_vars

\* "Export Selected" has handed over a selected row that matches the search
\* while another selected row does not match it.
C19_Witness ==
  /\ last = "exportSelected"
  /\ Len(calls[1].arg) >= 1
  /\ Len(calls[1].arg) < Len(selectedItems)
  /\ searchTerm # <<>>

\* The step confirms the request the Delete button of a row of localData
\* made.
ConfirmsSingleDelete ==
  /\ last' = "confirmDelete"
  /\ deleteConfirm # BulkDeleteRequest
  /\ deleteConfirm.itemId \in RowIds

\* C20: with no search term and no active filter, a confirmed single delete
\* of a row of rows that leaves at least one row ends with currentPage =
\* min(previous currentPage, ceil((n - 1) / itemsPerPage)), n the previous
\* number of rows: one row a page, three rows and page 3 end on page 2.
C20_SingleDeleteClampsPage ==
  [][ /\ ConfirmsSingleDelete
      /\ searchTerm = <<>>
      /\ activeFilters = <<>>
      /\ Len(localData) >= 2
      => LET newTotalPages == CeilDiv(Len(localData) - 1, config.itemsPerPage)
         IN currentPage' =
              IF currentPage < newTotalPages THEN currentPage
              ELSE newTotalPages
    ]_vars

\* The formatted value of a column of a row contains the term, both in
\* lower case.
FormattedContains(row, column, term) ==
  Includes(ToLowerCase(formatValue(Field(row, column.key), column)),
           ToLowerCase(term))

\* C21: the search keeps a row if and only if at least one searchable
\* column has a formatted value, the placeholder of a null or undefined
\* field included, whose lower-case form contains the lower-cased term;
\* with search disabled or an empty term every row is kept.
C21_SearchMatchesFormatted ==
  LET kept == ApplySearch(localData, searchTerm, columns, config)
  IN IF config.enableSearch /\ searchTerm # <<>>
       THEN \A i \in 1..Len(localData) :
              localData[i] \in Range(kept) <=>
                \E c \in 1..Len(columns) :
                  /\ Searchable(columns[c])
                  /\ FormattedContains(localData[i], columns[c], searchTerm)
       ELSE kept = localData

\* The activeFilters mapping cut down to one of its entries.
OnlyEntry(key) == [k \in {key} |-> activeFilters[key]]

KnownFilterTypes == {"select", "date", "daterange", "number", "text"}

\* An entry of activeFilters imposes no constraint: its value is absent or
\* "all", its key has no FilterSpec, or its FilterSpec is of no known type.
NoConstraint(key) ==
  \/ IsNullish(activeFilters[key])
  \/ activeFilters[key] = Str(<<"a", "l", "l">>)
  \/ FindFilter(filters, key) = 0
  \/ filters[FindFilter(filters, key)].type \notin KnownFilterTypes

InNoRow(key) == \A i \in 1..Len(localData) : key \notin DOMAIN localData[i]

\* The key matches no column, or only columns not marked sortable.
Malformed(key) ==
  \A i \in 1..Len(columns) : columns[i].key = key => ~Sortable(columns[i])

\* C24: handleSort with a key that matches no column, or a column not
\* marked sortable, leaves sortConfig and every other state variable
\* unchanged; a sortConfig whose key is present in no row leaves the
\* filtered sequence with the same rows, none dropped or duplicated.
C24_MalformedSortIsNoOp ==
  /\ [][ \A key \in SortKeys :
           handleSort(key) /\ Malformed(key) =>
             UNCHANGED << sideVars, props, localData, searchTerm, activeFilters,
                          sortConfig, currentPage, selectedItems,
                          editModalOpen, selectedItem, deleteConfirm,
                          modalVars >>
       ]_vars
  /\ [](sortConfig # Null /\ InNoRow(sortConfig.key) =>
          /\ Len(filteredData) =
               Len(ApplySearch(localData, searchTerm, columns, config))
          /\ Range(filteredData) =
               Range(ApplySearch(localData, searchTerm, columns, config)))

\* The rows are sorted by a column whose key no row holds, and all of them
\* are there.
C24_Witness ==
  /\ last = "handleSort"
  /\ sortConfig # Null
  /\ sortConfig.key = "rank"
  /\ sortConfig.direction = "desc"
  /\ Len(filteredData) = Len(RowPool)

\* C25: confirming a single-row delete requested for row r removes exactly
\* r from rows and nothing else and notifies onItemDelete with r's id only,
\* for every row id, "bulk" included, and every selection.
C25_SingleDeleteRemovesOne ==
  [][ ConfirmsSingleDelete =>
        /\ localData' =
             SelectSeq(localData, LAMBDA r : r.id # deleteConfirm.itemId)
        /\ Len(localData') = Len(localData) - 1
        /\ SelectSeq(calls', LAMBDA c : c.fn = "onItemDelete") =
             << [fn |-> "onItemDelete", arg |-> deleteConfirm.itemId] >>
    ]_vars

\* C26: in every reachable state every id in selectedItems is the id of a
\* row currently in rows.
C26_SelectionRefersToRows == Range(selectedItems) \subseteq RowIds

\* C27: with pagination enabled currentPage <= max(1, totalPages) in every
\* reachable state, and a non-empty filtered sequence never yields an empty
\* current page window.
C27_PageWithinTotal ==
  config.enablePagination =>
    /\ currentPage <= Max(1, totalPages)
    /\ Len(filteredData) > 0 => Len(currentData) > 0

\* C28: the header checkbox is shown checked if and only if every row
\* displayed on the current page is selected and the page is non-empty.
C28_HeaderShowsPageSelected ==
  config.enableSelection =>
    (HeaderChecked <=>
       /\ Len(currentData) > 0
       /\ \A i \in 1..Len(currentData) :
            currentData[i].id \in Range(selectedItems))

\* C29: repeated handleSort on the same sortable column cycles the sort
\* spec none -> ascending -> descending -> none; handleSort on a different
\* sortable column yields that column ascending whatever the spec was; no
\* other operation changes sortConfig.
C29_SortCycles ==
  [][ /\ \A i \in 1..Len(columns) :
           LET key == columns[i].key
           IN handleSort(key) /\ ~Malformed(key) =>
                sortConfig' =
                  IF sortConfig = Null THEN [key |-> key, direction |-> "asc"]
                  ELSE IF sortConfig.key # key
                    THEN [key |-> key, direction |-> "asc"]
                  ELSE IF sortConfig.direction = "asc"
                    THEN [key |-> key, direction |-> "desc"]
                  ELSE Null
      /\ sortConfig' # sortConfig => last' = "handleSort"
    ]_vars

\* A third click on the same column has cleared the sort.
C29_Witness ==
  /\ last = "handleSort"
  /\ sortConfig = Null
  /\ Len(localData) >= 2

\* C30: minWidth <= sidebarWidth <= maxWidth in every state reached by
\* mouse-down on the resize border, mouse moves, mouse-up and toggle clicks;
\* once the effect of a manual toggle has run with no resize in progress,
\* sidebarWidth is 220 if open and 72 if closed and manualToggle is false.
C30_SidebarWidthInBounds ==
  /\ [](minWidth <= sidebarWidth /\ sidebarWidth <= maxWidth)
  /\ [][ /\ last' = "handleToggleClick" /\ ~isResizing =>
              /\ sidebarWidth' = IF open' THEN 220 ELSE 72
              /\ ~manualToggle'
         /\ last' = "handleMouseUp" /\ manualToggle =>
              /\ sidebarWidth' = IF open' THEN 220 ELSE 72
              /\ ~manualToggle'
       ]_vars

\* A drag from a wider sidebar has shrunk it to its least width and closed
\* it.
C30_Witness ==
  /\ last = "handleMouseMove"
  /\ isResizing
  /\ startWidth = maxWidth
  /\ sidebarWidth = minWidth
  /\ ~open

====
